---- MODULE Spec2Model ----
(***************************************************************************)
(* filetemp: the argument schema / validation engine (program_args), the   *)
(* option-cache text format (config_file) and the pipeline of main that    *)
(* ties them together.  Text is modelled as sequences of one-character     *)
(* strings, so that parsing and serialising are computed, not assumed.     *)
(***************************************************************************)
EXTENDS Integers, Sequences, FiniteSets, TLC

VARIABLES
    cmd,          \* CommandArg: file_type, defined_args, general_args, arg_map
    pc,           \* position of the running operation
    args,         \* raw tokens handed to process_arg_impl
    pos,          \* number of tokens process_arg_impl has consumed
    found_arg,    \* process_arg_impl: local found_arg
    arg_ref,      \* process_arg_impl: local arg_ref
    res,          \* result of the last fallible call (Ok or an error)
    output_mode,  \* main: output_mode
    arg_cache,    \* main: arg_cache, the collection read_arg_cache returned
    result_str,   \* main: result_str
    stdout,       \* what print! wrote
    out_file,     \* the generated file written by write_to_file
    stderr,       \* error reports, oldest first
    cache_file,   \* cache.txt on disk: NoFile or its text
    cache_opens,  \* number of times cache.txt was opened with truncate
    le,           \* ConfigWriter: the platform's line ending
    line,         \* parse_line: its input line
    line_result,  \* parse_line: its LineResult
    rd,           \* read_from_config: the loop's state
    wr,           \* writer/reader round trip: collection, text, result
    runs,         \* number of invocations started on this cache file
    race          \* two invocations sharing cache.txt, and who wrote last

cmdVars == <<cmd, pc, args, pos, found_arg, arg_ref, res>>
mainVars == <<output_mode, arg_cache, result_str, stdout, out_file, stderr,
              cache_file, cache_opens, le>>
parseVars == <<line, line_result>>
readVars == <<rd>>
rtVars == <<wr>>
multiVars == <<runs, race>>
vars == <<cmdVars, mainVars, parseVars, readVars, rtVars, multiVars>>

(***************************************************************************)
(* Bounds of the model.                                                    *)
(***************************************************************************)
MaxArgs == 4        \* tokens of one command line in SpecCmd
MaxMainArgs == 4    \* tokens of one command line in Spec
MaxLines == 4       \* lines of one cache buffer in SpecRead
MaxBundles == 2
MaxSections == 2    \* sections of one buffer in SpecSections     \* bundles of a collection in SpecRoundTrip

(***************************************************************************)
(* Text.                                                                   *)
(***************************************************************************)
LF == "\n"
CR == "\r"
S_version == <<"v","e","r","s","i","o","n">>
S_proj == <<"p","r","o","j">>
S_main_lang == <<"m","a","i","n","-","l","a","n","g">>
S_cstd == <<"c","s","t","d">>
S_cxxstd == <<"c","x","x","s","t","d">>
S_target_type == <<"t","a","r","g","e","t","-","t","y","p","e">>
S_target_name == <<"t","a","r","g","e","t","-","n","a","m","e">>
S_path == <<"p","a","t","h">>
S_show == <<"s","h","o","w">>
S_save_as == <<"s","a","v","e","-","a","s">>
S_use == <<"u","s","e">>
S_gen_example == <<"g","e","n","-","e","x","a","m","p","l","e">>
S_file_type == <<"f","i","l","e","_","t","y","p","e">>
S_cmake == <<"c","m","a","k","e">>
S_CMake == <<"C","M","a","k","e">>
S_unknown == <<"u","n","k","n","o","w","n">>
S_true == <<"t","r","u","e">>
S_cxx == <<"c","x","x">>
S_c == <<"c">>
S_executable == <<"e","x","e","c","u","t","a","b","l","e">>
S_staticlib == <<"s","t","a","t","i","c","l","i","b">>
S_sharedlib == <<"s","h","a","r","e","d","l","i","b">>
S_a == <<"a">>
S_b == <<"b">>
S_ab == <<"a",":","b">>
S_empty == <<>>
S_dashes == <<"-","-">>

Upper == [c \in {"c","m","a","k","e","x","u","t","b","l","s","h","r","d","i"} |->
            CASE c = "c" -> "C" [] c = "m" -> "M" [] c = "a" -> "A"
              [] c = "k" -> "K" [] c = "e" -> "E" [] c = "x" -> "X"
              [] c = "u" -> "U" [] c = "t" -> "T" [] c = "b" -> "B"
              [] c = "l" -> "L" [] c = "s" -> "S" [] c = "h" -> "H"
              [] c = "r" -> "R" [] c = "d" -> "D" [] c = "i" -> "I"]

\* u8::eq_ignore_ascii_case on one character
CharEqIgnoreCase(x, y) ==
    \/ x = y
    \/ x \in DOMAIN Upper /\ Upper[x] = y
    \/ y \in DOMAIN Upper /\ Upper[y] = x

eq_ignore_ascii_case(s, t) ==
    /\ Len(s) = Len(t)
    /\ \A i \in 1..Len(s) : CharEqIgnoreCase(s[i], t[i])

starts_with(s, p) ==
    /\ Len(s) >= Len(p)
    /\ SubSeq(s, 1, Len(p)) = p

\* &s[from..] with a 0-based byte offset (all text of the model is ASCII)
SliceFrom(s, from) == SubSeq(s, from + 1, Len(s))

\* &s[from..to] with 0-based byte offsets, to exclusive
Slice(s, from, to) == SubSeq(s, from + 1, to)

RECURSIVE Concat(_)
Concat(ss) == IF ss = <<>> THEN <<>> ELSE Head(ss) \o Concat(Tail(ss))

RECURSIVE Join(_, _)
Join(ss, sep) ==
    IF ss = <<>> THEN <<>>
    ELSE IF Len(ss) = 1 THEN ss[1]
    ELSE ss[1] \o sep \o Join(Tail(ss), sep)

\* the element of a one-element set; binding a value this way evaluates it once
Only(S) == CHOOSE x \in S : TRUE

(***************************************************************************)
(* file_types: FileType.                                                   *)
(***************************************************************************)
FT_CMake == "CMake"
FT_Unknown == "Unknown"

match_type(name) ==
    IF eq_ignore_ascii_case(name, S_cmake) THEN FT_CMake ELSE FT_Unknown

to_str(ty) == IF ty = FT_CMake THEN S_cmake ELSE S_unknown

(***************************************************************************)
(* program_args: Arg, ArgGroup, CommandArg.                                *)
(***************************************************************************)
Arg_new(arg_name) ==
    [name |-> arg_name, is_flag |-> FALSE, is_required |-> FALSE,
     has_default_value |-> FALSE, default_value |-> <<>>]

flag(arg, f) == [arg EXCEPT !.is_flag = f]

required(arg, req) == [arg EXCEPT !.is_required = req]

default_val(arg, v) == [arg EXCEPT !.default_value = v, !.has_default_value = TRUE]

ArgGroup_new(arg) == [definition |-> arg, found |-> FALSE]

CommandArg_new ==
    [file_type |-> FT_Unknown, defined_args |-> [t \in {} |-> <<>>],
     general_args |-> <<>>, arg_map |-> [k \in {} |-> <<>>]]

add_arg_def(c, file_type, arg) ==
    IF file_type = FT_Unknown
    THEN [c EXCEPT !.general_args = Append(@, ArgGroup_new(arg))]
    ELSE [c EXCEPT !.defined_args =
            IF file_type \in DOMAIN @
            THEN [@ EXCEPT ![file_type] = Append(@, ArgGroup_new(arg))]
            ELSE @ @@ (file_type :> <<ArgGroup_new(arg)>>)]

add_general_arg_def(c, arg) == add_arg_def(c, FT_Unknown, arg)

RECURSIVE AddAll(_, _, _)
AddAll(c, file_type, defs) ==
    IF defs = <<>> THEN c
    ELSE Only({AddAll(c1, file_type, Tail(defs)) :
                 c1 \in {add_arg_def(c, file_type, Head(defs))}})

\* main.rs define_args
define_args(c) ==
    AddAll(AddAll(c, FT_CMake,
                  << required(Arg_new(S_version), TRUE),
                     required(Arg_new(S_proj), TRUE),
                     default_val(Arg_new(S_main_lang), S_cxx),
                     Arg_new(S_cstd),
                     Arg_new(S_cxxstd),
                     Arg_new(S_target_type),
                     Arg_new(S_target_name) >>),
           FT_Unknown,
           << Arg_new(S_path),
              flag(Arg_new(S_show), TRUE),
              Arg_new(S_save_as),
              Arg_new(S_use),
              flag(Arg_new(S_gen_example), TRUE) >>)

get_arg(c, key) ==
    IF key \in DOMAIN c.arg_map THEN [some |-> TRUE, val |-> c.arg_map[key]]
    ELSE [some |-> FALSE, val |-> <<>>]

get_flag(c, key) == key \in DOMAIN c.arg_map

get_file_type(c) == c.file_type

\* defined_args.entry(file_type).or_default()
TypeArgs(c) ==
    IF c.file_type \in DOMAIN c.defined_args THEN c.defined_args[c.file_type]
    ELSE <<>>

\* ty_args.chain(gn_args): type-scoped entries first, then the global ones
query_valid_args(c) == TypeArgs(c) \o c.general_args

ValidNames(c) ==
    [i \in 1..Len(query_valid_args(c)) |-> query_valid_args(c)[i].definition.name]

\* HashMap::entry(k).or_insert(v)
or_insert(m, k, v) == IF k \in DOMAIN m THEN m ELSE m @@ (k :> v)

\* HashMap::insert(k, v)
insert(m, k, v) == [x \in DOMAIN m \cup {k} |-> IF x = k THEN v ELSE m[x]]

\* sets found on the i-th entry of the chain
SetFound(c, i) ==
    IF i <= Len(TypeArgs(c))
    THEN [c EXCEPT !.defined_args[c.file_type][i].found = TRUE]
    ELSE [c EXCEPT !.general_args[i - Len(TypeArgs(c))].found = TRUE]

verify_arg(arg, valid_arg) ==
    IF starts_with(arg, S_dashes) /\ Len(arg) > 2
    THEN valid_arg = SliceFrom(arg, 2)
    ELSE FALSE

Ok == [ok |-> TRUE]
Err(kind, text) == [ok |-> FALSE, kind |-> kind, text |-> text]

\* the loop body with HashMap::insert in place of entry().or_insert()
ProcessOneArgOverwrite(st, arg) ==
    IF st.found_arg
    THEN [st EXCEPT !.cmd.arg_map = insert(@, st.arg_ref, arg),
                    !.found_arg = FALSE]
    ELSE LET chain == query_valid_args(st.cmd)
             hits == {i \in 1..Len(chain) : verify_arg(arg, chain[i].definition.name)}
         IN  IF hits = {}
             THEN [st EXCEPT !.res = Err("InvalidArg", arg)]
             ELSE LET i == CHOOSE j \in hits : \A k \in hits : j <= k
                      valid_arg == chain[i].definition
                      c1 == IF ~valid_arg.is_flag THEN st.cmd
                            ELSE [st.cmd EXCEPT !.arg_map =
                                    insert(@, valid_arg.name, S_true)]
                  IN  [st EXCEPT
                         !.cmd = SetFound(c1, i),
                         !.arg_ref = IF valid_arg.is_flag THEN @ ELSE valid_arg.name,
                         !.found_arg = IF valid_arg.is_flag THEN @ ELSE TRUE]

\* the loop body passing over a token that names no entry
ProcessOneArgSkipInvalid(st, arg) ==
    IF st.found_arg
    THEN [st EXCEPT !.cmd.arg_map = or_insert(@, st.arg_ref, arg),
                    !.found_arg = FALSE]
    ELSE LET chain == query_valid_args(st.cmd)
             hits == {i \in 1..Len(chain) : verify_arg(arg, chain[i].definition.name)}
         IN  IF hits = {}
             THEN st
             ELSE LET i == CHOOSE j \in hits : \A k \in hits : j <= k
                      valid_arg == chain[i].definition
                      c1 == IF ~valid_arg.is_flag THEN st.cmd
                            ELSE [st.cmd EXCEPT !.arg_map =
                                    or_insert(@, valid_arg.name, S_true)]
                  IN  [st EXCEPT
                         !.cmd = SetFound(c1, i),
                         !.arg_ref = IF valid_arg.is_flag THEN @ ELSE valid_arg.name,
                         !.found_arg = IF valid_arg.is_flag THEN @ ELSE TRUE]

\* the body of the loop of process_arg_impl, on one token
ProcessOneArg(st, arg) ==
    IF st.found_arg
    THEN [st EXCEPT !.cmd.arg_map = or_insert(@, st.arg_ref, arg),
                    !.found_arg = FALSE]
    ELSE LET chain == query_valid_args(st.cmd)
             hits == {i \in 1..Len(chain) : verify_arg(arg, chain[i].definition.name)}
         IN  IF hits = {}
             THEN [st EXCEPT !.res = Err("InvalidArg", arg)]
             ELSE LET i == CHOOSE j \in hits : \A k \in hits : j <= k
                      valid_arg == chain[i].definition
                      c1 == IF ~valid_arg.is_flag THEN st.cmd
                            ELSE [st.cmd EXCEPT !.arg_map =
                                    or_insert(@, valid_arg.name, S_true)]
                  IN  [st EXCEPT
                         !.cmd = SetFound(c1, i),
                         !.arg_ref = IF valid_arg.is_flag THEN @ ELSE valid_arg.name,
                         !.found_arg = IF valid_arg.is_flag THEN @ ELSE TRUE]

\* insert_arg_if_absent with HashMap::insert in place of entry().or_insert()
insert_arg_overwrite(c, arg, content) ==
    LET chain == query_valid_args(c)
        RECURSIVE Mark(_, _)
        Mark(cc, i) ==
            IF i > Len(chain) THEN cc
            ELSE Only({Mark(c1, i + 1) :
                         c1 \in {IF chain[i].definition.name = arg
                                 THEN SetFound(cc, i) ELSE cc}})
    IN  Mark([c EXCEPT !.arg_map = insert(@, arg, content)], 1)

insert_arg_if_absent(c, arg, content) ==
    LET chain == query_valid_args(c)
        RECURSIVE Mark(_, _)
        Mark(cc, i) ==
            IF i > Len(chain) THEN cc
            ELSE Only({Mark(c1, i + 1) :
                         c1 \in {IF chain[i].definition.name = arg
                                 THEN SetFound(cc, i) ELSE cc}})
    IN  Mark([c EXCEPT !.arg_map = or_insert(@, arg, content)], 1)

\* every order in which the elements of S can be listed
RECURSIVE Orders(_)
Orders(S) ==
    IF S = {} THEN {<<>>}
    ELSE UNION {{<<x>> \o q : q \in Orders(S \ {x})} : x \in S}

\* arg_map.iter(): a HashMap yields its pairs in an unspecified order
extract_args(c) ==
    Orders({[arg |-> k, content |-> c.arg_map[k]] : k \in DOMAIN c.arg_map})

\* the loop of assert_required_args_exist from the i-th entry of the chain on
RECURSIVE AssertLoop(_, _, _)
AssertLoop(c, i, missing) ==
    LET chain == query_valid_args(c) IN
    IF i > Len(chain) THEN [cmd |-> c, missing |-> missing]
    ELSE LET valid_arg == chain[i] IN
         IF valid_arg.found THEN AssertLoop(c, i + 1, missing)
         ELSE IF valid_arg.definition.is_required
              THEN Only({AssertLoop(c, i + 1, m1) :
                           m1 \in {Append(missing, valid_arg.definition.name)}})
         ELSE IF valid_arg.definition.has_default_value
              THEN Only({AssertLoop(c1, i + 1, missing) :
                           c1 \in {[c EXCEPT !.arg_map =
                                      insert(@, valid_arg.definition.name,
                                             valid_arg.definition.default_value)]}})
         ELSE AssertLoop(c, i + 1, missing)

\* assert_required_args_exist failing at the first missing name
assert_required_fail_fast(c) ==
    LET r == AssertLoop(c, 1, <<>>)
    IN  [cmd |-> r.cmd,
         res |-> IF r.missing # <<>>
                 THEN Err("MissingArg", r.missing[1])
                 ELSE Ok]

assert_required_args_exist(c) ==
    LET r == AssertLoop(c, 1, <<>>)
    IN  [cmd |-> r.cmd,
         res |-> IF r.missing # <<>>
                 THEN Err("MissingArg", Join(r.missing, <<",", " ">>))
                 ELSE Ok]

(***************************************************************************)
(* config_file: ArgCache, parse_line, ConfigReader, ConfigWriter.          *)
(***************************************************************************)
ArgCache_new == [file_type |-> FT_Unknown, cache_name |-> <<>>, args |-> <<>>]

CacheName(name) == [tag |-> "CacheName", name |-> name]
FileTy(ty) == [tag |-> "FileTy", ty |-> ty]
ArgItem(arg, content) == [tag |-> "ArgItem", arg |-> arg, content |-> content]
ParseError(msg, what, line_num) ==
    [tag |-> "ParseError", msg |-> msg, what |-> what, line_num |-> line_num]
Discard == [tag |-> "Discard"]

\* the option lookup returning save-as and use lines as Option-Items
ParseArgItem_keep_control(valid_args, line_num, ln, arg_end_size, ct_start_size) ==
    LET arg == Slice(ln, 0, arg_end_size)
        content == SliceFrom(ln, ct_start_size)
        hits == {i \in 1..Len(valid_args) : arg = valid_args[i]}
    IN  IF hits # {}
        THEN ArgItem(valid_args[CHOOSE j \in hits : \A k \in hits : j <= k], content)
        ELSE IF arg = S_file_type
        THEN FileTy(match_type(content))
        ELSE ParseError("Having invalid argument name", arg, line_num)

\* the part of parse_line that looks the option name up (is_arg_item)
ParseArgItem(valid_args, line_num, ln, arg_end_size, ct_start_size) ==
    LET arg == Slice(ln, 0, arg_end_size)
        content == SliceFrom(ln, ct_start_size)
        hits == {i \in 1..Len(valid_args) : arg = valid_args[i]}
    IN  IF hits # {}
        THEN IF arg = S_save_as \/ arg = S_use
             THEN Discard
             ELSE ArgItem(valid_args[CHOOSE j \in hits : \A k \in hits : j <= k],
                          content)
        ELSE IF arg = S_file_type
        THEN FileTy(match_type(content))
        ELSE ParseError("Having invalid argument name", arg, line_num)

\* the part of parse_line that reads a section header
ParseCacheName(line_num, ln) ==
    LET cache_name_start_size == 1
        cache_name_end_size == Len(ln) - 1
    IN  IF ln[Len(ln)] # "]"
        THEN ParseError("Missing ]", <<>>, line_num)
        ELSE IF cache_name_start_size >= cache_name_end_size
        THEN ParseError("Having empty cache name", <<>>, line_num)
        ELSE CacheName(Slice(ln, cache_name_start_size, cache_name_end_size))

\* parse_line splitting at the last colon of the line instead of the first
parse_line_last_colon(valid_args, line_num, ln) ==
    IF Len(ln) > 0 /\ ln[1] = "["
    THEN ParseCacheName(line_num, ln)
    ELSE LET colons == {i \in 1..Len(ln) : ln[i] = ":"} IN
         IF colons = {}
         THEN ParseArgItem(valid_args, line_num, ln, 0, 0)
         ELSE LET idx == (CHOOSE j \in colons : \A k \in colons : j >= k) - 1
              IN  IF idx = 0
                  THEN ParseError("Having empty argument name", <<>>, line_num)
                  ELSE IF idx + 1 = Len(ln)
                  THEN ParseError("Having empty argument content", <<>>, line_num)
                  ELSE ParseArgItem(valid_args, line_num, ln, idx, idx + 1)

\* parse_line without the test for a colon at the end of the line
parse_line_no_content_check(valid_args, line_num, ln) ==
    IF Len(ln) > 0 /\ ln[1] = "["
    THEN ParseCacheName(line_num, ln)
    ELSE LET colons == {i \in 1..Len(ln) : ln[i] = ":"} IN
         IF colons = {}
         THEN ParseArgItem(valid_args, line_num, ln, 0, 0)
         ELSE LET idx == (CHOOSE j \in colons : \A k \in colons : j <= k) - 1
              IN  IF idx = 0
                  THEN ParseError("Having empty argument name", <<>>, line_num)
                  ELSE ParseArgItem(valid_args, line_num, ln, idx, idx + 1)

parse_line(valid_args, line_num, ln) ==
    IF Len(ln) > 0 /\ ln[1] = "["
    THEN ParseCacheName(line_num, ln)
    ELSE LET colons == {i \in 1..Len(ln) : ln[i] = ":"} IN
         IF colons = {}
         THEN ParseArgItem(valid_args, line_num, ln, 0, 0)
         ELSE LET idx == (CHOOSE j \in colons : \A k \in colons : j <= k) - 1
                  arg_end_size == idx
                  ct_start_size == idx + 1
              IN  IF idx = 0
                  THEN ParseError("Having empty argument name", <<>>, line_num)
                  ELSE IF ct_start_size = Len(ln)
                  THEN ParseError("Having empty argument content", <<>>, line_num)
                  ELSE ParseArgItem(valid_args, line_num, ln,
                                    arg_end_size, ct_start_size)

\* str::lines(): split at "\n", a "\r" right before it belongs to the line
\* ending, and a last line with no line ending is a line too
RECURSIVE Lines(_)
Lines(text) ==
    IF text = <<>> THEN <<>>
    ELSE LET nls == {i \in 1..Len(text) : text[i] = LF} IN
         IF nls = {} THEN <<text>>
         ELSE LET n == CHOOSE j \in nls : \A k \in nls : j <= k
                  raw == SubSeq(text, 1, n - 1)
                  ln == IF raw # <<>> /\ raw[Len(raw)] = CR
                        THEN SubSeq(raw, 1, Len(raw) - 1) ELSE raw
              IN  <<ln>> \o Lines(SubSeq(text, n + 1, Len(text)))

\* read_from_config: the locals of the loop before the first line
ReadStart ==
    [caches |-> <<>>, current_cache |-> ArgCache_new, parsing_cache |-> FALSE,
     res |-> Ok]

FileTypeNotSpecified(name) == Err("File type not specified for cache", name)

\* the loop body keeping current_cache after a section is committed
ReadLine_no_reset(valid_args, st, idx, ln) ==
    IF ln = <<>> /\ st.parsing_cache
    THEN IF st.current_cache.file_type = FT_Unknown
         THEN [st EXCEPT !.res = FileTypeNotSpecified(st.current_cache.cache_name)]
         ELSE [st EXCEPT !.caches = Append(@, st.current_cache),
                         !.parsing_cache = FALSE]
    ELSE LET r == parse_line(valid_args, idx, ln) IN
         CASE r.tag = "ParseError" ->
                [st EXCEPT !.res = Err(r.msg, <<r.what, r.line_num>>)]
           [] r.tag = "CacheName" ->
                [st EXCEPT !.current_cache.cache_name = r.name,
                           !.parsing_cache = TRUE]
           [] r.tag = "ArgItem" ->
                IF st.parsing_cache
                THEN [st EXCEPT !.current_cache.args =
                        Append(@, [arg |-> r.arg, content |-> r.content])]
                ELSE [st EXCEPT !.res = Err("Invalid content in config cache file", ln)]
           [] r.tag = "FileTy" ->
                IF r.ty = FT_Unknown
                THEN [st EXCEPT !.res = Err("Invalid file type for cache",
                                            st.current_cache.cache_name)]
                ELSE [st EXCEPT !.current_cache.file_type = r.ty]
           [] r.tag = "Discard" -> st

\* the loop body passing over a line that parse_line rejects
ReadLine_skip_malformed(valid_args, st, idx, ln) ==
    IF ln = <<>> /\ st.parsing_cache
    THEN IF st.current_cache.file_type = FT_Unknown
         THEN [st EXCEPT !.res = FileTypeNotSpecified(st.current_cache.cache_name)]
         ELSE [st EXCEPT !.caches = Append(@, st.current_cache),
                         !.current_cache = ArgCache_new,
                         !.parsing_cache = FALSE]
    ELSE LET r == parse_line(valid_args, idx, ln) IN
         CASE r.tag = "ParseError" -> st
           [] r.tag = "CacheName" ->
                [st EXCEPT !.current_cache.cache_name = r.name,
                           !.parsing_cache = TRUE]
           [] r.tag = "ArgItem" ->
                IF st.parsing_cache
                THEN [st EXCEPT !.current_cache.args =
                        Append(@, [arg |-> r.arg, content |-> r.content])]
                ELSE [st EXCEPT !.res = Err("Invalid content in config cache file", ln)]
           [] r.tag = "FileTy" ->
                IF r.ty = FT_Unknown
                THEN [st EXCEPT !.res = Err("Invalid file type for cache",
                                            st.current_cache.cache_name)]
                ELSE [st EXCEPT !.current_cache.file_type = r.ty]
           [] r.tag = "Discard" -> st

\* the loop body attaching an option item to current_cache in either state
ReadLine_attach_idle(valid_args, st, idx, ln) ==
    IF ln = <<>> /\ st.parsing_cache
    THEN IF st.current_cache.file_type = FT_Unknown
         THEN [st EXCEPT !.res = FileTypeNotSpecified(st.current_cache.cache_name)]
         ELSE [st EXCEPT !.caches = Append(@, st.current_cache),
                         !.current_cache = ArgCache_new,
                         !.parsing_cache = FALSE]
    ELSE LET r == parse_line(valid_args, idx, ln) IN
         CASE r.tag = "ParseError" ->
                [st EXCEPT !.res = Err(r.msg, <<r.what, r.line_num>>)]
           [] r.tag = "CacheName" ->
                [st EXCEPT !.current_cache.cache_name = r.name,
                           !.parsing_cache = TRUE]
           [] r.tag = "ArgItem" ->
                [st EXCEPT !.current_cache.args =
                        Append(@, [arg |-> r.arg, content |-> r.content])]
           [] r.tag = "FileTy" ->
                IF r.ty = FT_Unknown
                THEN [st EXCEPT !.res = Err("Invalid file type for cache",
                                            st.current_cache.cache_name)]
                ELSE [st EXCEPT !.current_cache.file_type = r.ty]
           [] r.tag = "Discard" -> st

\* read_from_config: the body of the loop on line number idx
ReadLine(valid_args, st, idx, ln) ==
    IF ln = <<>> /\ st.parsing_cache
    THEN IF st.current_cache.file_type = FT_Unknown
         THEN [st EXCEPT !.res = FileTypeNotSpecified(st.current_cache.cache_name)]
         ELSE [st EXCEPT !.caches = Append(@, st.current_cache),
                         !.current_cache = ArgCache_new,
                         !.parsing_cache = FALSE]
    ELSE LET r == parse_line(valid_args, idx, ln) IN
         CASE r.tag = "ParseError" ->
                [st EXCEPT !.res = Err(r.msg, <<r.what, r.line_num>>)]
           [] r.tag = "CacheName" ->
                [st EXCEPT !.current_cache.cache_name = r.name,
                           !.parsing_cache = TRUE]
           [] r.tag = "ArgItem" ->
                IF st.parsing_cache
                THEN [st EXCEPT !.current_cache.args =
                        Append(@, [arg |-> r.arg, content |-> r.content])]
                ELSE [st EXCEPT !.res = Err("Invalid content in config cache file", ln)]
           [] r.tag = "FileTy" ->
                IF r.ty = FT_Unknown
                THEN [st EXCEPT !.res = Err("Invalid file type for cache",
                                            st.current_cache.cache_name)]
                ELSE [st EXCEPT !.current_cache.file_type = r.ty]
           [] r.tag = "Discard" -> st

\* the end of the loop committing the open section whatever its file type
ReadEnd_no_type_check(st) ==
    IF st.parsing_cache
    THEN [st EXCEPT !.caches = Append(@, st.current_cache)]
    ELSE st

\* read_from_config: after the loop
ReadEnd(st) ==
    IF st.parsing_cache
    THEN IF st.current_cache.file_type = FT_Unknown
         THEN [st EXCEPT !.res = FileTypeNotSpecified(st.current_cache.cache_name)]
         ELSE [st EXCEPT !.caches = Append(@, st.current_cache)]
    ELSE st

RECURSIVE ReadLoop(_, _, _, _)
ReadLoop(valid_args, st, lines, idx) ==
    IF idx >= Len(lines) THEN ReadEnd(st)
    ELSE Only({IF ~st1.res.ok THEN st1
               ELSE ReadLoop(valid_args, st1, lines, idx + 1) :
                 st1 \in {ReadLine(valid_args, st, idx, lines[idx + 1])}})

\* Ok(caches) or Err(message)
read_from_config(text, valid_args) ==
    Only({IF st.res.ok THEN [ok |-> TRUE, caches |-> st.caches] ELSE st.res :
            st \in {Only({ReadLoop(valid_args, ReadStart, lines, 0) :
                            lines \in {Lines(text)}})}})

WriteItem(item, eol) ==
    <<"[">> \o item.cache_name \o <<"]">> \o eol
    \o S_file_type \o <<":">> \o to_str(item.file_type) \o eol
    \o Concat([i \in 1..Len(item.args) |->
                 item.args[i].arg \o <<":">> \o item.args[i].content \o eol])
    \o eol

\* write_to_config without the blank line that separates two bundles
write_to_config_no_separator(cache, eol) ==
    Concat([i \in 1..Len(cache) |->
              SubSeq(WriteItem(cache[i], eol), 1,
                     Len(WriteItem(cache[i], eol)) - Len(eol))])

\* the text write_to_config hands to the file
write_to_config(cache, eol) ==
    Concat([i \in 1..Len(cache) |-> WriteItem(cache[i], eol)])

(***************************************************************************)
(* The parts of the state an operation under check does not use.           *)
(***************************************************************************)
NoFile == [exists |-> FALSE, text |-> <<>>]
File(text) == [exists |-> TRUE, text |-> text]
NoResult == [tag |-> "None"]

CmdIdle ==
    /\ cmd = CommandArg_new
    /\ pc = "idle"
    /\ args = <<>>
    /\ pos = 0
    /\ found_arg = FALSE
    /\ arg_ref = <<>>
    /\ res = Ok

MainIdle ==
    /\ output_mode = "NoOutput"
    /\ arg_cache = <<>>
    /\ result_str = NoResult
    /\ stdout = NoResult
    /\ out_file = NoResult
    /\ stderr = <<>>
    /\ cache_file = NoFile
    /\ cache_opens = 0
    /\ le = <<LF>>

ParseIdle ==
    /\ line = [name |-> <<>>, content |-> <<>>, text |-> <<>>, num |-> 0,
               valid |-> <<>>]
    /\ line_result = NoResult

ReadIdle == rd = [lines |-> <<>>, idx |-> 0, st |-> ReadStart, done |-> FALSE]

RtIdle == wr = [cache |-> <<>>, eol |-> <<LF>>, stage |-> "idle",
                text |-> <<>>, result |-> NoResult]

MultiIdle ==
    /\ runs = 0
    /\ race = [procs |-> <<>>, last |-> 0]

\* the names read_arg_cache hands to the reader: query_valid_args of main's registry
ProgramCmd == [define_args(CommandArg_new) EXCEPT !.file_type = FT_CMake]
ProgramValidNames == ValidNames(ProgramCmd)

LineEndings == {<<LF>>, <<CR, LF>>}

(***************************************************************************)
(* SpecParse: parse_line on one line.                                      *)
(***************************************************************************)
ParseNames ==
    {ProgramValidNames[i] : i \in 1..Len(ProgramValidNames)}
        \cup {S_file_type, <<"z">>, <<>>}
ParseContents == {S_a, S_ab, <<":">>, <<":", "a", ":">>, S_cmake, <<"[", "a", "]">>, <<>>}
ParseHeaders == {<<"[", "a", "]">>, <<"[", "]">>, <<"[", "a">>, <<"[">>,
                 <<"[", "a", "]", "b">>, <<"[", ":", "]">>, <<"a">>, <<>>}

\* the valid names a caller may hand over: main's, none, and a registry whose
\* only option has the empty name
ParseValidSets == {ProgramValidNames, <<>>, << <<>> >>}

InitParse ==
    /\ \E v \in ParseValidSets :
         \/ \E n \in ParseNames, c \in ParseContents, k \in 0..1 :
              line = [name |-> n, content |-> c, text |-> n \o <<":">> \o c,
                      num |-> k, valid |-> v]
         \/ \E h \in ParseHeaders :
              line = [name |-> <<>>, content |-> <<>>, text |-> h, num |-> 0,
                      valid |-> v]
    /\ line_result = NoResult
    /\ CmdIdle /\ MainIdle /\ ReadIdle /\ RtIdle /\ MultiIdle

ParseLine ==
    /\ line_result = NoResult
    /\ line_result' = parse_line(line.valid, line.num, line.text)
    /\ UNCHANGED <<line, cmdVars, mainVars, readVars, rtVars, multiVars>>

NextParse == ParseLine

SpecParse == InitParse /\ [][NextParse]_vars

(***************************************************************************)
(* SpecRead: read_from_config, line by line, on a buffer of lines.         *)
(***************************************************************************)
L_header_a == <<"[", "a", "]">>
L_header_b == <<"[", "b", "]">>
L_file_type == S_file_type \o <<":">> \o S_cmake
L_file_type_bad == S_file_type \o <<":">> \o <<"x">>
L_proj == S_proj \o <<":">> \o S_a
L_use == S_use \o <<":">> \o S_a
L_bad == <<"z">>
L_blank == <<>>
L_no_bracket == <<"[", "a">>
L_no_name == <<"[", "]">>
L_colon_first == <<":", "a">>
L_colon_last == S_proj \o <<":">>
L_save_as == S_save_as \o <<":">> \o S_a

ReadLines == {L_header_a, L_header_b, L_file_type, L_file_type_bad, L_proj,
              L_use, L_bad, L_blank, L_no_bracket, L_no_name, L_colon_first,
              L_colon_last, L_save_as}

RECURSIVE SeqsUpTo(_, _)
SeqsUpTo(S, n) ==
    IF n = 0 THEN {<<>>}
    ELSE LET shorter == SeqsUpTo(S, n - 1)
         IN  shorter \cup {Append(q, x) : q \in {r \in shorter : Len(r) = n - 1}, x \in S}

InitRead ==
    /\ \E b \in SeqsUpTo(ReadLines, MaxLines) :
          rd = [lines |-> b, idx |-> 0, st |-> ReadStart, done |-> FALSE]
    /\ CmdIdle /\ MainIdle /\ ParseIdle /\ RtIdle /\ MultiIdle

ReadLineStep ==
    /\ ~rd.done
    /\ rd.st.res.ok
    /\ rd.idx < Len(rd.lines)
    /\ rd' = [rd EXCEPT
                !.st = ReadLine(ProgramValidNames, rd.st, rd.idx, rd.lines[rd.idx + 1]),
                !.idx = @ + 1]
    /\ UNCHANGED <<cmdVars, mainVars, parseVars, rtVars, multiVars>>

ReadEndStep ==
    /\ ~rd.done
    /\ rd.st.res.ok
    /\ rd.idx = Len(rd.lines)
    /\ rd' = [rd EXCEPT !.st = ReadEnd(rd.st), !.done = TRUE]
    /\ UNCHANGED <<cmdVars, mainVars, parseVars, rtVars, multiVars>>

NextRead == ReadLineStep \/ ReadEndStep

SpecRead == InitRead /\ [][NextRead]_vars

(***************************************************************************)
(* SpecSections: read_from_config, line by line, on a buffer made of       *)
(* sections: a header, a file_type line and option items, then a blank     *)
(* line.                                                                   *)
(***************************************************************************)
SectionNames == {S_a, S_b}
SectionTypes == {S_cmake, S_CMake}
SectionItems ==
    { <<>>,
      <<[arg |-> S_proj, content |-> S_a]>>,
      <<[arg |-> S_path, content |-> S_ab], [arg |-> S_proj, content |-> S_a]>> }

Sections ==
    {[name |-> n, type |-> t, items |-> its, type_first |-> f] :
        n \in SectionNames, t \in SectionTypes, its \in SectionItems,
        f \in BOOLEAN}

\* the lines of one section, its terminating blank line included
SectionLines(sec) ==
    LET header == <<"[">> \o sec.name \o <<"]">>
        type_line == S_file_type \o <<":">> \o sec.type
        item_lines == [j \in 1..Len(sec.items) |->
                         sec.items[j].arg \o <<":">> \o sec.items[j].content]
    IN  <<header>>
        \o (IF sec.type_first THEN <<type_line>> \o item_lines
            ELSE item_lines \o <<type_line>>)
        \o <<L_blank>>

RECURSIVE BufferOf(_)
BufferOf(secs) ==
    IF secs = <<>> THEN <<>> ELSE SectionLines(Head(secs)) \o BufferOf(Tail(secs))

InitSections ==
    /\ \E secs \in SeqsUpTo(Sections, MaxSections) :
          rd = [lines |-> BufferOf(secs), idx |-> 0, st |-> ReadStart,
                done |-> FALSE, sections |-> secs]
    /\ CmdIdle /\ MainIdle /\ ParseIdle /\ RtIdle /\ MultiIdle

SpecSections == InitSections /\ [][NextRead]_vars

(***************************************************************************)
(* SpecRoundTrip: write_to_config, then read_from_config of its text.      *)
(***************************************************************************)
RtCacheNames == {S_a, S_b}
RtPair(n, c) == [arg |-> n, content |-> c]
RtArgLists ==
    { <<>>,
      <<RtPair(S_proj, S_a)>>,
      <<RtPair(S_proj, S_ab), RtPair(S_path, S_a)>>,
      <<RtPair(S_path, S_a), RtPair(S_proj, S_ab)>>,
      <<RtPair(S_proj, S_a), RtPair(S_save_as, S_a)>>,
      <<RtPair(S_proj, S_empty)>> }
RtBundles ==
    {[file_type |-> FT_CMake, cache_name |-> n, args |-> a] :
        n \in RtCacheNames, a \in RtArgLists}

InitRoundTrip ==
    /\ \E c \in SeqsUpTo(RtBundles, MaxBundles), e \in LineEndings :
          wr = [cache |-> c, eol |-> e, stage |-> "new",
                text |-> <<>>, result |-> NoResult]
    /\ CmdIdle /\ MainIdle /\ ParseIdle /\ ReadIdle /\ MultiIdle

RtWrite ==
    /\ wr.stage = "new"
    /\ wr' = [wr EXCEPT !.text = write_to_config(wr.cache, wr.eol),
                        !.stage = "written"]
    /\ UNCHANGED <<cmdVars, mainVars, parseVars, readVars, multiVars>>

RtRead ==
    /\ wr.stage = "written"
    /\ wr' = [wr EXCEPT !.result = read_from_config(wr.text, ProgramValidNames),
                        !.stage = "read"]
    /\ UNCHANGED <<cmdVars, mainVars, parseVars, readVars, multiVars>>

NextRoundTrip == RtWrite \/ RtRead

SpecRoundTrip == InitRoundTrip /\ [][NextRoundTrip]_vars

(***************************************************************************)
(* Claims about the cache text format.                                     *)
(***************************************************************************)

\* a collection as the data model describes it: known file types, non-empty
\* cache names, and option pairs whose names are valid names other than the
\* cache-control names and whose contents are not empty
WellFormedBundle(b) ==
    /\ b.file_type # FT_Unknown
    /\ b.cache_name # <<>>
    /\ \A j \in 1..Len(b.args) :
          /\ \E i \in 1..Len(ProgramValidNames) : ProgramValidNames[i] = b.args[j].arg
          /\ b.args[j].arg \notin {S_save_as, S_use}
          /\ b.args[j].content # <<>>

WellFormedCollection(c) == \A i \in 1..Len(c) : WellFormedBundle(c[i])

\* C3: serialising a well-formed collection with the Cache Writer and parsing
\* the text with the Cache Reader, with the same valid names, gives back an
\* equal collection: same cache names, file types and option pairs, in order.
C3_RoundTrip ==
    (wr.stage = "read" /\ WellFormedCollection(wr.cache))
        => wr.result = [ok |-> TRUE, caches |-> wr.cache]

\* two bundles, one of them with two pairs and a content that holds a colon
C3_Witness ==
    /\ wr.stage = "read"
    /\ WellFormedCollection(wr.cache)
    /\ Len(wr.cache) = 2
    /\ wr.cache[1].cache_name # wr.cache[2].cache_name
    /\ Len(wr.cache[1].args) = 2
    /\ wr.cache[1].args[1].content = S_ab
    /\ wr.eol = <<CR, LF>>
    /\ wr.result.ok

IsHeaderLine(ln) == ln # <<>> /\ ln[1] = "["
IsFileTypeLine(ln) == starts_with(ln, S_file_type \o <<":">>)

\* the index of the line that terminates the section whose header is line h:
\* the first blank line after h, or one past the last line
Terminator(lines, h) ==
    LET blanks == {j \in (h + 1)..Len(lines) : lines[j] = <<>>}
    IN  IF blanks = {} THEN Len(lines) + 1
        ELSE CHOOSE j \in blanks : \A k \in blanks : j <= k

\* line h is a header met while no section is open: no header stands between
\* the last blank line before h (or the start of the buffer) and h
OpensSection(lines, h) ==
    /\ IsHeaderLine(lines[h])
    /\ \A g \in 1..(h - 1) :
          IsHeaderLine(lines[g]) => \E j \in (g + 1)..(h - 1) : lines[j] = <<>>

\* C7: a section with no file_type line between its own header and its
\* terminator is never committed, so a read that succeeds saw a file_type
\* line inside every section, whatever precedes the section's header.
C7_FileTypeMandatory ==
    (rd.done /\ rd.st.res.ok) =>
        \A h \in 1..Len(rd.lines) :
            OpensSection(rd.lines, h) =>
                \E j \in (h + 1)..(Terminator(rd.lines, h) - 1) :
                    IsFileTypeLine(rd.lines[j])

\* C10: a line name:content with a valid name that is not save-as or use and
\* a non-empty content parses to the Option-Item of that name whose content
\* is everything after the first colon.
C10_OptionItemVerbatim ==
    (/\ line_result # NoResult
     /\ line.text = line.name \o <<":">> \o line.content
     /\ \E i \in 1..Len(line.valid) : line.valid[i] = line.name
     /\ line.name # <<>>
     /\ line.name \notin {S_save_as, S_use}
     /\ line.content # <<>>)
        => line_result = ArgItem(line.name, line.content)

\* an Option-Item whose content holds further colons
C10_Witness ==
    /\ line_result = ArgItem(S_proj, <<":", "a", ":">>)
    /\ line.text = S_proj \o <<":", ":", "a", ":">>

FirstColon(ln) ==
    LET colons == {i \in 1..Len(ln) : ln[i] = ":"}
    IN  IF colons = {} THEN 0 ELSE CHOOSE j \in colons : \A k \in colons : j <= k

IsParseError(r, msg) == r.tag = "ParseError" /\ r.msg = msg

\* C11: whatever the valid names are, a line that starts with [ and does not
\* end with ] fails with "Missing ]", the line [] fails with "Having empty
\* cache name", a line that starts with a colon fails with "Having empty
\* argument name", and a line that starts with neither and whose first colon
\* is its last character fails with "Having empty argument content".
C11_MalformedShapes ==
    line_result # NoResult =>
        LET t == line.text IN
        /\ (IsHeaderLine(t) /\ t[Len(t)] # "]")
              => IsParseError(line_result, "Missing ]")
        /\ t = <<"[", "]">>
              => IsParseError(line_result, "Having empty cache name")
        /\ (t # <<>> /\ t[1] = ":")
              => IsParseError(line_result, "Having empty argument name")
        /\ (~IsHeaderLine(t) /\ FirstColon(t) > 1 /\ FirstColon(t) = Len(t))
              => IsParseError(line_result, "Having empty argument content")

\* proj: handed over with no valid name at all
C11_Witness ==
    /\ line.text = S_proj \o <<":">>
    /\ line.valid = <<>>
    /\ IsParseError(line_result, "Having empty argument content")

\* C12: a buffer of N sections, each a header, a file_type line with a known
\* type and option items with valid names, each ended by one blank line,
\* reads as N bundles in input order, bundle i with section i's cache name,
\* its file type and its option pairs in line order.
C12_SectionsInOrder ==
    rd.done =>
        /\ rd.st.res.ok
        /\ rd.st.caches =
              [i \in 1..Len(rd.sections) |->
                 [file_type |-> FT_CMake,
                  cache_name |-> rd.sections[i].name,
                  args |-> rd.sections[i].items]]

\* two sections read, the first with two option items
C12_Witness ==
    /\ rd.done
    /\ Len(rd.sections) = 2
    /\ Len(rd.sections[1].items) = 2
    /\ rd.sections[1].name # rd.sections[2].name
    /\ Len(rd.st.caches) = 2
    /\ rd.st.caches[2].cache_name = rd.sections[2].name

\* the reader is about to process line rd.idx + 1
AtLine == rd.st.res.ok /\ ~rd.done /\ rd.idx < Len(rd.lines)

CurrentLine == rd.lines[rd.idx + 1]

HeaderLines == SelectSeq(rd.lines, IsHeaderLine)

\* C15: on a successful read there are as many bundles as header lines in
\* the buffer, and bundle i is named by header line i.
C15_OneBundlePerHeader ==
    (rd.done /\ rd.st.res.ok) =>
        /\ Len(rd.st.caches) = Len(HeaderLines)
        /\ \A i \in 1..Len(rd.st.caches) :
              <<"[">> \o rd.st.caches[i].cache_name \o <<"]">> = HeaderLines[i]

\* C16: a blank line met while no section is open raises no error and leaves
\* the reader state and the bundles committed so far unchanged.
C16_BlankWhileIdle ==
    [][(AtLine /\ CurrentLine = L_blank /\ ~rd.st.parsing_cache)
          => rd'.st = rd.st]_vars

\* name:content with a valid name other than save-as, use and file_type, and
\* a content that is not empty
IsOptionItemLine(ln) ==
    /\ FirstColon(ln) > 1
    /\ FirstColon(ln) < Len(ln)
    /\ \E i \in 1..Len(ProgramValidNames) :
          /\ ProgramValidNames[i] = SubSeq(ln, 1, FirstColon(ln) - 1)
          /\ ProgramValidNames[i] \notin {S_save_as, S_use, S_file_type}

\* C19: an Option-Item line met while no section is open fails the read with
\* "Invalid content in config cache file" and is attached to no bundle.
C19_ItemWhileIdle ==
    [][(AtLine /\ IsOptionItemLine(CurrentLine) /\ ~rd.st.parsing_cache)
          => /\ rd'.st.res = Err("Invalid content in config cache file", CurrentLine)
             /\ rd'.st.caches = rd.st.caches
             /\ rd'.st.current_cache = rd.st.current_cache]_vars

\* [a], file_type:cmake, a blank line, then proj:a after the terminator
C19_Witness ==
    /\ rd.lines = <<L_header_a, L_file_type, L_blank, L_proj>>
    /\ rd.idx = 4
    /\ rd.st.res = Err("Invalid content in config cache file", L_proj)
    /\ Len(rd.st.caches) = 1
    /\ rd.st.current_cache = ArgCache_new

\* the hard parse error a line is by itself, "none" when it is none: a header
\* without ] or without a name, a colon first or last, an unknown file type,
\* an option name that is not valid
HardErrorKind(ln) ==
    LET name == SubSeq(ln, 1, FirstColon(ln) - 1)
        content == SubSeq(ln, FirstColon(ln) + 1, Len(ln))
    IN  IF ln = <<>> THEN "none"
        ELSE IF IsHeaderLine(ln)
        THEN IF ln[Len(ln)] # "]" THEN "Missing ]"
             ELSE IF Len(ln) = 2 THEN "Having empty cache name"
             ELSE "none"
        ELSE IF FirstColon(ln) = 0 THEN "Having invalid argument name"
        ELSE IF FirstColon(ln) = 1 THEN "Having empty argument name"
        ELSE IF FirstColon(ln) = Len(ln) THEN "Having empty argument content"
        ELSE IF \E i \in 1..Len(ProgramValidNames) : ProgramValidNames[i] = name
        THEN "none"
        ELSE IF name = S_file_type
        THEN IF eq_ignore_ascii_case(content, S_cmake) THEN "none"
             ELSE "Invalid file type for cache"
        ELSE "Having invalid argument name"

\* the first line of the buffer that is a hard parse error, 0 when none is
FirstMalformed ==
    LET bad == {i \in 1..Len(rd.lines) : HardErrorKind(rd.lines[i]) # "none"}
    IN  IF bad = {} THEN 0 ELSE CHOOSE i \in bad : \A k \in bad : i <= k

\* the buffer as text, each line ended by a line feed
BufferText == Concat([i \in 1..Len(rd.lines) |-> rd.lines[i] \o <<LF>>])

\* C18 as stated: when some line of the buffer is a hard parse error, the
\* read fails at the earliest such line, with that line's error.
C18_FailsAtEarliestMalformed ==
    ((rd.done \/ ~rd.st.res.ok) /\ FirstMalformed # 0) =>
        /\ ~rd.st.res.ok
        /\ rd.idx = FirstMalformed
        /\ rd.st.res.kind = HardErrorKind(rd.lines[FirstMalformed])

\* C18, for the lines the read reaches: no step follows a failure; a read that reaches a line that
\* is a hard parse error fails at that line with that line's error; and
\* what a failed read returns is the error alone, with no bundles.
C18_AbortsAtReachedMalformed ==
    [][/\ rd.st.res.ok
       /\ (AtLine /\ HardErrorKind(CurrentLine) # "none")
            => /\ ~rd'.st.res.ok
               /\ rd'.st.res.kind = HardErrorKind(CurrentLine)
       /\ ~rd'.st.res.ok
            => /\ read_from_config(BufferText, ProgramValidNames) = rd'.st.res
               /\ "caches" \notin DOMAIN rd'.st.res]_vars

\* a well-formed section is read and committed, then the line z fails the read
C18_Witness ==
    /\ rd.lines = <<L_header_a, L_file_type, L_blank, L_bad>>
    /\ rd.idx = 4
    /\ Len(rd.st.caches) = 1
    /\ ~rd.st.res.ok
    /\ rd.st.res.kind = "Having invalid argument name"

\* what read_from_config returns from the locals st
ReadOutcome(st) == IF st.res.ok THEN [ok |-> TRUE, caches |-> st.caches] ELSE st.res

\* C21: a read that ends inside an open section has the outcome of the read
\* of the same buffer followed by one blank line: the same bundles, or the
\* same "File type not specified" error.
C21_EndLikeBlankLine ==
    (rd.done /\ rd.st.parsing_cache) =>
        ReadOutcome(rd.st)
            = read_from_config(BufferText \o <<LF>>, ProgramValidNames)

\* [a], file_type:cmake, proj:a and the end of input: one bundle
C21_Witness ==
    /\ rd.done
    /\ rd.lines = <<L_header_a, L_file_type, L_proj>>
    /\ rd.st.parsing_cache
    /\ rd.st.res.ok
    /\ Len(rd.st.caches) = 1
    /\ rd.st.caches[1].args = <<[arg |-> S_proj, content |-> S_a]>>

\* name:content with the name save-as or use and a content that is not empty
IsCacheControlItem(ln) ==
    /\ FirstColon(ln) > 1
    /\ FirstColon(ln) < Len(ln)
    /\ SubSeq(ln, 1, FirstColon(ln) - 1) \in {S_save_as, S_use}

NoCacheControlPair(bundle) ==
    \A j \in 1..Len(bundle.args) : bundle.args[j].arg \notin {S_save_as, S_use}

\* C22: a save-as or use line leaves the reader's state, the accumulating
\* bundle and the committed bundles as they are and raises no error, in
\* either state; no bundle the reader holds has a pair named save-as or use.
C22_CacheControlDiscarded ==
    [][/\ (AtLine /\ IsCacheControlItem(CurrentLine)) => rd'.st = rd.st
       /\ NoCacheControlPair(rd'.st.current_cache)
       /\ \A i \in 1..Len(rd'.st.caches) : NoCacheControlPair(rd'.st.caches[i])]_vars

\* use:a before any header and save-as:a inside section a: a is read with
\* no option pair
C22_Witness ==
    /\ rd.done
    /\ rd.lines = <<L_use, L_header_a, L_file_type, L_save_as>>
    /\ rd.st.res.ok
    /\ rd.st.caches = <<[file_type |-> FT_CMake, cache_name |-> S_a, args |-> <<>>]>>

(***************************************************************************)
(* SpecCmd: the operations of CommandArg in the order main calls them:     *)
(* process_arg_impl token by token, insert_arg_if_absent (cache merge),    *)
(* assert_required_args_exist.                                             *)
(***************************************************************************)
Opt(name) == S_dashes \o name

\* a registry with one name in the type-scoped and in the global partition
DupCmd ==
    [add_general_arg_def(
        add_general_arg_def(
            add_general_arg_def(
                add_arg_def(
                    add_arg_def(CommandArg_new, FT_CMake,
                                required(Arg_new(S_version), TRUE)),
                    FT_CMake, Arg_new(S_proj)),
                default_val(Arg_new(S_proj), S_cxx)),
            flag(Arg_new(S_show), TRUE)),
        Arg_new(S_path))
     EXCEPT !.file_type = FT_CMake]

CmdRegistries == {ProgramCmd, DupCmd}
CmdTokens == {Opt(S_version), Opt(S_proj), Opt(S_show), Opt(S_path), S_a, S_b,
              S_dashes, Opt(<<"z">>)}
MergeNames == {S_version, S_proj, S_show}
MergeContents == {S_a, S_b}

InitCmd ==
    /\ cmd \in CmdRegistries
    /\ args \in SeqsUpTo(CmdTokens, MaxArgs)
    /\ pc = "match"
    /\ pos = 0
    /\ found_arg = FALSE
    /\ arg_ref = <<>>
    /\ res = Ok
    /\ MainIdle /\ ParseIdle /\ ReadIdle /\ RtIdle /\ MultiIdle

LoopState == [cmd |-> cmd, found_arg |-> found_arg, arg_ref |-> arg_ref, res |-> res]

\* one iteration of the loop of process_arg_impl
CmdProcessArg ==
    /\ pc = "match"
    /\ pos < Len(args)
    /\ \E st \in {ProcessOneArg(LoopState, args[pos + 1])} :
           /\ cmd' = st.cmd
           /\ found_arg' = st.found_arg
           /\ arg_ref' = st.arg_ref
           /\ res' = st.res
           /\ pc' = IF st.res.ok THEN "match" ELSE "failed"
    /\ pos' = pos + 1
    /\ UNCHANGED <<args, mainVars, parseVars, readVars, rtVars, multiVars>>

\* the loop of process_arg_impl ends: Ok(())
CmdProcessDone ==
    /\ pc = "match"
    /\ pos = Len(args)
    /\ pc' = "matched"
    /\ UNCHANGED <<cmd, args, pos, found_arg, arg_ref, res,
                   mainVars, parseVars, readVars, rtVars, multiVars>>

CmdInsertIfAbsent ==
    /\ pc = "matched"
    /\ \E n \in MergeNames, c \in MergeContents :
          cmd' = insert_arg_if_absent(cmd, n, c)
    /\ pc' = "merged"
    /\ UNCHANGED <<args, pos, found_arg, arg_ref, res,
                   mainVars, parseVars, readVars, rtVars, multiVars>>

CmdAssertRequired ==
    /\ pc \in {"matched", "merged"}
    /\ \E r \in {assert_required_args_exist(cmd)} :
           /\ cmd' = r.cmd
           /\ res' = r.res
    /\ pc' = "asserted"
    /\ UNCHANGED <<args, pos, found_arg, arg_ref,
                   mainVars, parseVars, readVars, rtVars, multiVars>>

NextCmd == CmdProcessArg \/ CmdProcessDone \/ CmdInsertIfAbsent \/ CmdAssertRequired

SpecCmd == InitCmd /\ [][NextCmd]_vars

(***************************************************************************)
(* Claims about CommandArg.                                                *)
(***************************************************************************)

\* C5: once a name has a value in the Supplied Option Map, no later
\* operation (a repeated option, cache merge, default filling) changes it,
\* for every registry, one with a name in both partitions included.
C5_FirstWriterWins ==
    [][\A k \in DOMAIN cmd.arg_map :
          k \in DOMAIN cmd'.arg_map /\ cmd'.arg_map[k] = cmd.arg_map[k]]_vars

Chain == query_valid_args(cmd)
ChainNames == {Chain[i].definition.name : i \in 1..Len(Chain)}

\* the names of the entries that are required and not marked supplied, in
\* precedence order
MissingNames ==
    LET miss == SelectSeq(Chain, LAMBDA e : e.definition.is_required /\ ~e.found)
    IN  [i \in 1..Len(miss) |-> miss[i].definition.name]

\* C8: assert_required_present fails iff some entry is required and not
\* marked supplied; its one message lists every such name once, joined by
\* ", " in precedence order; otherwise it succeeds and every unsupplied
\* entry with a default holds its default value.
C8_AssertRequired ==
    pc = "asserted" =>
        /\ res.ok <=> MissingNames = <<>>
        /\ ~res.ok => /\ res.kind = "MissingArg"
                      /\ res.text = Join(MissingNames, <<",", " ">>)
                      /\ \A i, j \in 1..Len(MissingNames) :
                            i # j => MissingNames[i] # MissingNames[j]
        /\ res.ok => \A i \in 1..Len(Chain) :
                        (~Chain[i].found /\ Chain[i].definition.has_default_value)
                            => /\ Chain[i].definition.name \in DOMAIN cmd.arg_map
                               /\ cmd.arg_map[Chain[i].definition.name]
                                    = Chain[i].definition.default_value

\* two required names are missing and both are reported in one message
C8_WitnessMissing ==
    /\ pc = "asserted"
    /\ cmd.defined_args = ProgramCmd.defined_args
    /\ ~res.ok
    /\ res.text = S_version \o <<",", " ">> \o S_proj

\* the first entry, in precedence order, that token tok names
NamedEntry(tok) ==
    LET hits == {i \in 1..Len(Chain) : tok = Opt(Chain[i].definition.name)}
    IN  IF hits = {} THEN 0 ELSE CHOOSE j \in hits : \A k \in hits : j <= k

NamesNonFlag(tok) ==
    NamedEntry(tok) # 0 /\ ~Chain[NamedEntry(tok)].definition.is_flag

\* token i stands in option position: it is the first token, or the token
\* before it was not an option awaiting its value
RECURSIVE InOptionPosition(_)
InOptionPosition(i) ==
    IF i = 1 THEN TRUE
    ELSE ~(InOptionPosition(i - 1) /\ NamesNonFlag(args[i - 1]))

\* the positions where option n is named
Occurrences(n) == {i \in 1..Len(args) : InOptionPosition(i) /\ args[i] = Opt(n)}

\* C9: tokens are consumed left to right; after a successful match a matched
\* flag holds the true marker and consumed no value, a matched non-flag
\* option holds the token that followed its first occurrence, verbatim, and
\* an option never named is unset.
C9_MatcherResult ==
    /\ (pc = "match" /\ pos > 0) =>
          (found_arg <=> (InOptionPosition(pos) /\ NamesNonFlag(args[pos])))
    /\ pc = "matched" =>
          \A n \in ChainNames :
            LET occ == Occurrences(n)
                first == CHOOSE i \in occ : \A k \in occ : i <= k
            IN  IF occ = {} THEN n \notin DOMAIN cmd.arg_map
                ELSE IF Chain[NamedEntry(Opt(n))].definition.is_flag
                THEN n \in DOMAIN cmd.arg_map /\ cmd.arg_map[n] = S_true
                ELSE first < Len(args) =>
                        (n \in DOMAIN cmd.arg_map /\ cmd.arg_map[n] = args[first + 1])

\* C13: when assert_required_present succeeds, every required entry of the
\* active file type has a value in the option map, also after a command line
\* whose last token is a non-flag option name.
C13_RequiredHaveValues ==
    (pc = "asserted" /\ res.ok) =>
        \A i \in 1..Len(Chain) :
            Chain[i].definition.is_required
                => Chain[i].definition.name \in DOMAIN cmd.arg_map

\* C20: a token in option position that is not -- followed by the name of an
\* entry ends the matcher with InvalidArg carrying that token, the option
\* map and the supplied markers stay as the earlier tokens left them, and
\* no step follows the failure.
C20_InvalidToken ==
    [][/\ pc # "failed"
       /\ (/\ pc = "match"
           /\ pos < Len(args)
           /\ InOptionPosition(pos + 1)
           /\ NamedEntry(args[pos + 1]) = 0)
            => /\ pc' = "failed"
               /\ res' = Err("InvalidArg", args[pos + 1])
               /\ cmd' = cmd]_vars

\* --proj a --z b: the failure carries --z, proj keeps a, b is never read
C20_Witness ==
    /\ pc = "failed"
    /\ args = <<Opt(S_proj), S_a, Opt(<<"z">>), S_b>>
    /\ pos = 3
    /\ res = Err("InvalidArg", Opt(<<"z">>))
    /\ get_arg(cmd, S_proj) = [some |-> TRUE, val |-> S_a]

\* --show --path --show: show is set, and path holds "--show"
C9_Witness ==
    /\ pc = "matched"
    /\ args = <<Opt(S_show), Opt(S_path), Opt(S_show), Opt(S_path)>>
    /\ cmd.arg_map = (S_show :> S_true) @@ (S_path :> Opt(S_show))

(***************************************************************************)
(* file_types::cmake_files: what main needs of the templating collaborator.*)
(***************************************************************************)
Digits == {"0", "1", "2", "3", "4", "5", "6", "7", "8", "9"}
DigitVal == [d \in Digits |->
               CASE d = "0" -> 0 [] d = "1" -> 1 [] d = "2" -> 2 [] d = "3" -> 3
                 [] d = "4" -> 4 [] d = "5" -> 5 [] d = "6" -> 6 [] d = "7" -> 7
                 [] d = "8" -> 8 [] d = "9" -> 9]

RECURSIVE StripZeros(_)
StripZeros(ds) ==
    IF Len(ds) > 1 /\ ds[1] = "0" THEN StripZeros(Tail(ds)) ELSE ds

\* x <= y for two equally long digit strings
RECURSIVE LexLeq(_, _)
LexLeq(x, y) ==
    IF x = <<>> THEN TRUE
    ELSE IF DigitVal[x[1]] # DigitVal[y[1]] THEN DigitVal[x[1]] < DigitVal[y[1]]
    ELSE LexLeq(Tail(x), Tail(y))

\* the number written x is at most the number written y
DecimalLeq(x, y) ==
    LET a == StripZeros(x)
        b == StripZeros(y)
    IN  Len(a) < Len(b) \/ (Len(a) = Len(b) /\ LexLeq(a, b))

I32Max == <<"2","1","4","7","4","8","3","6","4","7">>
I32MinAbs == <<"2","1","4","7","4","8","3","6","4","8">>

\* str::parse::<i32>().is_ok()
ParsesI32(s) ==
    LET signed == s # <<>> /\ s[1] \in {"+", "-"}
        ds == IF signed THEN Tail(s) ELSE s
    IN  /\ ds # <<>>
        /\ \A i \in 1..Len(ds) : ds[i] \in Digits
        /\ IF signed /\ s[1] = "-"
           THEN DecimalLeq(ds, I32MinAbs)
           ELSE DecimalLeq(ds, I32Max)

\* LanguageType::from_str(s).is_ok()
ParsesLanguageType(s) ==
    eq_ignore_ascii_case(s, S_c) \/ eq_ignore_ascii_case(s, S_cxx)

\* TargetType::from_str(s).is_ok()
ParsesTargetType(s) ==
    \/ eq_ignore_ascii_case(s, S_executable)
    \/ eq_ignore_ascii_case(s, S_staticlib)
    \/ eq_ignore_ascii_case(s, S_sharedlib)

verify_existed_args(c) ==
    IF c.file_type = FT_Unknown THEN Err("Unknown file type", <<>>)
    ELSE IF get_arg(c, S_cstd).some /\ ~ParsesI32(get_arg(c, S_cstd).val)
    THEN Err("Invalid C standard", get_arg(c, S_cstd).val)
    ELSE IF get_arg(c, S_cxxstd).some /\ ~ParsesI32(get_arg(c, S_cxxstd).val)
    THEN Err("Invalid C++ standard", get_arg(c, S_cxxstd).val)
    ELSE IF get_arg(c, S_main_lang).some /\ ~ParsesLanguageType(get_arg(c, S_main_lang).val)
    THEN Err("Invalid main language", get_arg(c, S_main_lang).val)
    ELSE IF get_arg(c, S_target_type).some /\ ~ParsesTargetType(get_arg(c, S_target_type).val)
    THEN Err("Invalid target type", get_arg(c, S_target_type).val)
    ELSE Ok

\* process_args: the options the rendered text is made of, or the panic of
\* get_arg("proj").unwrap() when neither target-name nor proj has a value
process_args(c) ==
    IF c.file_type = FT_Unknown THEN Err("Unknown file type", <<>>)
    ELSE IF ~get_arg(c, S_target_name).some /\ ~get_arg(c, S_proj).some
    THEN [ok |-> FALSE, kind |-> "panic", text |-> <<>>]
    ELSE [ok |-> TRUE,
          text |-> [tag |-> "CMakeLists",
                    cmake_version |-> get_arg(c, S_version).val,
                    project_name |-> get_arg(c, S_proj).val,
                    main_language |-> get_arg(c, S_main_lang),
                    c_standard |-> get_arg(c, S_cstd),
                    cxx_standard |-> get_arg(c, S_cxxstd),
                    target_type |-> get_arg(c, S_target_type),
                    target_name |-> IF get_arg(c, S_target_name).some
                                    THEN get_arg(c, S_target_name).val
                                    ELSE get_arg(c, S_proj).val]]

(***************************************************************************)
(* main.rs: OutputMode, read_arg_cache, write_arg_cache.                   *)
(***************************************************************************)
from_cmd(c) ==
    LET r1 == IF get_arg(c, S_save_as).some \/ get_arg(c, S_use).some
              THEN "SetConfig" ELSE "NoOutput"
        r2 == IF get_arg(c, S_path).some THEN "OutputFile" ELSE r1
    IN  IF get_flag(c, S_show)
        THEN IF r2 = "OutputFile" THEN "OutputShowAndFile" ELSE "OutputShow"
        ELSE r2

show(mode) == mode = "OutputShow" \/ mode = "OutputShowAndFile"

file(mode) == mode = "OutputFile" \/ mode = "OutputShowAndFile"

has_output(mode) == show(mode) \/ file(mode)

\* the index of the first bundle named cache_name, 0 when there is none
Position(caches, cache_name) ==
    LET hits == {i \in 1..Len(caches) : caches[i].cache_name = cache_name}
    IN  IF hits = {} THEN 0 ELSE CHOOSE j \in hits : \A k \in hits : j <= k

RECURSIVE MergeAll(_, _)
MergeAll(c, used_args) ==
    IF used_args = <<>> THEN c
    ELSE Only({MergeAll(c1, Tail(used_args)) :
                 c1 \in {insert_arg_if_absent(c, Head(used_args).arg,
                                              Head(used_args).content)}})

\* io: which of the calls into the file system fails, if any
read_arg_cache(c, disk, io) ==
    IF ~get_arg(c, S_use).some
    THEN [cmd |-> c, res |-> Ok, caches |-> <<>>]
    ELSE IF io = "dir"
    THEN [cmd |-> c, res |-> Err("Failed to create cache dir", <<>>), caches |-> <<>>]
    ELSE IF io = "open" \/ ~disk.exists
    THEN [cmd |-> c, res |-> Err("Failed to open config cache file.", <<>>),
          caches |-> <<>>]
    ELSE IF io = "rw"
    THEN [cmd |-> c, res |-> Err("Failed to read from config cache file.", <<>>),
          caches |-> <<>>]
    ELSE LET cache_name == get_arg(c, S_use).val IN
         Only({IF ~r.ok THEN [cmd |-> c, res |-> r, caches |-> <<>>]
               ELSE IF Position(r.caches, cache_name) = 0
               THEN [cmd |-> c, res |-> Err("Used invalid cache name", cache_name),
                     caches |-> <<>>]
               ELSE [cmd |-> MergeAll(c, r.caches[Position(r.caches, cache_name)].args),
                     res |-> Ok, caches |-> r.caches] :
                 r \in {read_from_config(disk.text, ValidNames(c))}})

\* replace-or-append by cache name
ReplaceOrAppend(cache, new_cache) ==
    LET p == Position(cache, new_cache.cache_name)
    IN  IF p # 0 THEN [cache EXCEPT ![p] = new_cache] ELSE Append(cache, new_cache)

\* write_arg_cache with the pairs of extract_args in the order `order`:
\* the result, the file on disk afterwards, and whether it was opened
write_arg_cache(c, cache, disk, eol, order, io) ==
    IF ~get_arg(c, S_save_as).some
    THEN [res |-> Ok, disk |-> disk, opened |-> FALSE]
    ELSE IF io = "dir"
    THEN [res |-> Err("Failed to create cache dir", <<>>), disk |-> disk,
          opened |-> FALSE]
    ELSE IF io = "open"
    THEN [res |-> Err("Failed to open config cache file.", <<>>), disk |-> disk,
          opened |-> FALSE]
    ELSE LET new_cache == [file_type |-> get_file_type(c),
                           cache_name |-> get_arg(c, S_save_as).val,
                           args |-> order]
         IN  IF io = "rw"
             THEN [res |-> Err("Failed to write into cache file.", <<>>),
                   disk |-> File(<<>>), opened |-> TRUE]
             ELSE [res |-> Ok,
                   disk |-> File(write_to_config(ReplaceOrAppend(cache, new_cache), eol)),
                   opened |-> TRUE]

(***************************************************************************)
(* Spec: one invocation of main, step by step, on a cache file that        *)
(* earlier invocations left behind.                                        *)
(***************************************************************************)
Pair(n, c) == [arg |-> n, content |-> c]

\* cmake --version a --proj c --save-as a, on no cache file
Bundle_a ==
    [file_type |-> FT_CMake, cache_name |-> S_a,
     args |-> <<Pair(S_version, S_a), Pair(S_proj, S_c), Pair(S_save_as, S_a)>>]

\* bundle a as the reader of a later invocation returns it
Bundle_a_reread ==
    [file_type |-> FT_CMake, cache_name |-> S_a,
     args |-> <<Pair(S_version, S_a), Pair(S_proj, S_c)>>]

\* cmake --use a --save-as c, on the cache file that holds bundle a
Bundle_c ==
    [file_type |-> FT_CMake, cache_name |-> S_c,
     args |-> <<Pair(S_use, S_a), Pair(S_save_as, S_c),
                Pair(S_version, S_a), Pair(S_proj, S_c)>>]

\* the collections earlier invocations can have written; the empty one is
\* the file a failed write leaves truncated
InitCollections == { <<>>, <<Bundle_a>>, <<Bundle_a_reread, Bundle_c>> }

FileTypeTokens == {S_cmake, S_CMake, <<"x">>}
MainTokens == {Opt(S_version), Opt(S_proj), Opt(S_path), Opt(S_show),
               Opt(S_save_as), Opt(S_use), Opt(S_main_lang), S_a, S_c, S_empty}
IoOutcomes == {"ok", "dir", "open", "rw"}

Init ==
    /\ cmd = define_args(CommandArg_new)
    /\ pc = "start"
    /\ args = <<>>
    /\ pos = 0
    /\ found_arg = FALSE
    /\ arg_ref = <<>>
    /\ res = Ok
    /\ output_mode = "NoOutput"
    /\ arg_cache = <<>>
    /\ result_str = NoResult
    /\ stdout = NoResult
    /\ out_file = NoResult
    /\ stderr = <<>>
    /\ le \in LineEndings
    /\ cache_file \in {NoFile} \cup {File(write_to_config(c, le)) : c \in InitCollections}
    /\ cache_opens = 0
    /\ ParseIdle /\ ReadIdle /\ RtIdle /\ MultiIdle

Report(e) == stderr' = Append(stderr, e)

\* process_program_args up to the call of process_arg_impl
MainStart ==
    /\ pc = "start"
    /\ \/ /\ stdout' = [tag |-> "Help"]
          /\ pc' = "done"
          /\ UNCHANGED <<cmd, stderr>>
       \/ \E t \in FileTypeTokens :
            IF match_type(t) = FT_Unknown
            THEN /\ Report(Err("InvalidFileType", t))
                 /\ pc' = "done"
                 /\ UNCHANGED <<cmd, stdout>>
            ELSE /\ cmd' = [cmd EXCEPT !.file_type = match_type(t)]
                 /\ pc' = "args"
                 /\ UNCHANGED <<stdout, stderr>>
    /\ UNCHANGED <<args, pos, found_arg, arg_ref, res, output_mode, arg_cache,
                   result_str, out_file, cache_file, cache_opens, le,
                   parseVars, readVars, rtVars, multiVars>>

\* one iteration of the loop of process_arg_impl, on the next token
MainProcessArg ==
    /\ pc = "args"
    /\ pos < MaxMainArgs
    /\ \E tok \in MainTokens :
         \E st \in {ProcessOneArg(LoopState, tok)} :
             /\ cmd' = st.cmd
             /\ found_arg' = st.found_arg
             /\ arg_ref' = st.arg_ref
             /\ IF st.res.ok
                THEN pc' = "args" /\ UNCHANGED stderr
                ELSE pc' = "done" /\ Report(st.res)
    /\ pos' = pos + 1
    /\ UNCHANGED <<args, res, output_mode, arg_cache, result_str, stdout, out_file,
                   cache_file, cache_opens, le, parseVars, readVars, rtVars, multiVars>>

\* process_program_args returns Ok; main computes the output mode
MainOutputMode ==
    /\ pc = "args"
    /\ output_mode' = from_cmd(cmd)
    /\ pc' = IF from_cmd(cmd) = "NoOutput" THEN "done" ELSE "read_cache"
    /\ pos' = 0
    /\ found_arg' = FALSE
    /\ arg_ref' = <<>>
    /\ UNCHANGED <<cmd, args, res, arg_cache, result_str, stdout, out_file, stderr,
                   cache_file, cache_opens, le, parseVars, readVars, rtVars, multiVars>>

MainReadArgCache ==
    /\ pc = "read_cache"
    /\ \E io \in IoOutcomes :
         \E r \in {read_arg_cache(cmd, cache_file, io)} :
             /\ cmd' = r.cmd
             /\ arg_cache' = r.caches
             /\ res' = r.res
             /\ IF r.res.ok
                THEN pc' = "assert" /\ UNCHANGED stderr
                ELSE pc' = "done" /\ Report(r.res)
    /\ UNCHANGED <<args, pos, found_arg, arg_ref, output_mode, result_str, stdout,
                   out_file, cache_file, cache_opens, le, parseVars, readVars, rtVars, multiVars>>

\* main.rs 90-94: the error is reported and main goes on
MainAssertRequired ==
    /\ pc = "assert"
    /\ IF file(output_mode)
       THEN \E r \in {assert_required_args_exist(cmd)} :
                /\ cmd' = r.cmd
                /\ res' = r.res
                /\ IF r.res.ok THEN UNCHANGED stderr ELSE Report(r.res)
       ELSE UNCHANGED <<cmd, res, stderr>>
    /\ pc' = "verify"
    /\ UNCHANGED <<args, pos, found_arg, arg_ref, output_mode, arg_cache, result_str,
                   stdout, out_file, cache_file, cache_opens, le,
                   parseVars, readVars, rtVars, multiVars>>

MainVerifyExisted ==
    /\ pc = "verify"
    /\ \E r \in {verify_existed_args(cmd)} :
          /\ res' = r
          /\ IF r.ok
             THEN pc' = "render" /\ UNCHANGED stderr
             ELSE pc' = "done" /\ Report(r)
    /\ UNCHANGED <<cmd, args, pos, found_arg, arg_ref, output_mode, arg_cache,
                   result_str, stdout, out_file, cache_file, cache_opens, le,
                   parseVars, readVars, rtVars, multiVars>>

\* main.rs 101-112; a panic of process_args ends the process
MainRender ==
    /\ pc = "render"
    /\ IF has_output(output_mode)
       THEN \E r \in {process_args(cmd)} :
                IF r.ok
                THEN /\ result_str' = r.text
                     /\ pc' = "show"
                     /\ UNCHANGED <<res, stderr>>
                ELSE IF r.kind = "panic"
                THEN /\ pc' = "panicked"
                     /\ res' = r
                     /\ UNCHANGED <<result_str, stderr>>
                ELSE /\ pc' = "done"
                     /\ res' = r
                     /\ Report(r)
                     /\ UNCHANGED result_str
       ELSE /\ result_str' = [tag |-> "Empty"]
            /\ pc' = "show"
            /\ UNCHANGED <<res, stderr>>
    /\ UNCHANGED <<cmd, args, pos, found_arg, arg_ref, output_mode, arg_cache,
                   stdout, out_file, cache_file, cache_opens, le,
                   parseVars, readVars, rtVars, multiVars>>

MainShow ==
    /\ pc = "show"
    /\ stdout' = IF show(output_mode) THEN result_str ELSE stdout
    /\ pc' = "file"
    /\ UNCHANGED <<cmd, args, pos, found_arg, arg_ref, res, output_mode, arg_cache,
                   result_str, out_file, stderr, cache_file, cache_opens, le,
                   parseVars, readVars, rtVars, multiVars>>

\* main.rs 118-128: write_to_file and generate_example, either may fail
MainWriteFile ==
    /\ pc = "file"
    /\ IF get_arg(cmd, S_path).some
       THEN \E written \in BOOLEAN, example \in BOOLEAN :
              /\ out_file' = IF written THEN result_str ELSE out_file
              /\ stderr' = stderr
                    \o (IF written THEN <<>>
                        ELSE <<Err("Failed to write to file.", <<>>)>>)
                    \o (IF get_flag(cmd, S_gen_example) /\ ~example
                        THEN <<Err("Failed to create example", <<>>)>>
                        ELSE <<>>)
              /\ (example \/ get_flag(cmd, S_gen_example))
       ELSE UNCHANGED <<out_file, stderr>>
    /\ pc' = "write_cache"
    /\ UNCHANGED <<cmd, args, pos, found_arg, arg_ref, res, output_mode, arg_cache,
                   result_str, stdout, cache_file, cache_opens, le,
                   parseVars, readVars, rtVars, multiVars>>

MainWriteArgCache ==
    /\ pc = "write_cache"
    /\ \E order \in extract_args(cmd), io \in IoOutcomes :
         \E r \in {write_arg_cache(cmd, arg_cache, cache_file, le, order, io)} :
             /\ cache_file' = r.disk
             /\ cache_opens' = IF r.opened THEN cache_opens + 1 ELSE cache_opens
             /\ res' = r.res
             /\ IF r.res.ok THEN UNCHANGED stderr ELSE Report(r.res)
    /\ pc' = "done"
    /\ UNCHANGED <<cmd, args, pos, found_arg, arg_ref, output_mode, arg_cache,
                   result_str, stdout, out_file, le, parseVars, readVars, rtVars, multiVars>>

Next ==
    \/ MainStart
    \/ MainProcessArg
    \/ MainOutputMode
    \/ MainReadArgCache
    \/ MainAssertRequired
    \/ MainVerifyExisted
    \/ MainRender
    \/ MainShow
    \/ MainWriteFile
    \/ MainWriteArgCache

Spec == Init /\ [][Next]_vars

(***************************************************************************)
(* Claims about one invocation of main.                                    *)
(***************************************************************************)
\* the bundles a cache file holds, as the reader returns them
BundlesOf(disk) ==
    IF ~disk.exists THEN <<>>
    ELSE Only({IF r.ok THEN r.caches ELSE <<>> :
                 r \in {read_from_config(disk.text, ProgramValidNames)}})

OthersThan(caches, cache_name) ==
    SelectSeq(caches, LAMBDA b : b.cache_name # cache_name)

SavedSuccessfully ==
    /\ pc = "write_cache"
    /\ pc' = "done"
    /\ get_arg(cmd, S_save_as).some
    /\ res'.ok

\* C1: an invocation that saves successfully under cache name N leaves every
\* bundle the cache file held under another name in the file, unchanged and
\* in the same relative order.
C1_SaveKeepsOtherBundles ==
    [][SavedSuccessfully =>
         OthersThan(BundlesOf(cache_file'), get_arg(cmd, S_save_as).val)
           = OthersThan(BundlesOf(cache_file), get_arg(cmd, S_save_as).val)]_vars

\* the errors the invocation is said to stop at
ListedError(e) ==
    e.kind \notin {"Failed to write to file.", "Failed to create example"}

ErrorReported == \E i \in 1..Len(stderr) : ListedError(stderr[i])

\* C2: once one of the listed errors is reported, no render, no output on
\* stdout, no file write and no cache write follows.
C2_ErrorStopsInvocation ==
    [][ErrorReported =>
         /\ result_str' = result_str
         /\ stdout' = stdout
         /\ out_file' = out_file
         /\ cache_file' = cache_file
         /\ cache_opens' = cache_opens]_vars

\* the bundle read_arg_cache merges: the first one named by `use`
UsedBundle(c, caches) == caches[Position(caches, get_arg(c, S_use).val)]

PairNames(bundle) == {bundle.args[j].arg : j \in 1..Len(bundle.args)}

Merged ==
    /\ pc = "read_cache"
    /\ pc' = "assert"
    /\ get_arg(cmd, S_use).some

\* C4: the merge of the bundle selected by `use` gives each of its pairs'
\* content to the option map exactly when the map held no value for the name;
\* every option that held a value keeps it, and no other name is touched.
C4_MergeFillsOnlyAbsent ==
    [][Merged =>
         LET used == UsedBundle(cmd, arg_cache') IN
         /\ DOMAIN cmd'.arg_map = DOMAIN cmd.arg_map \cup PairNames(used)
         /\ \A k \in DOMAIN cmd.arg_map : cmd'.arg_map[k] = cmd.arg_map[k]
         /\ \A k \in PairNames(used) \ DOMAIN cmd.arg_map :
              \E j \in 1..Len(used.args) :
                 /\ used.args[j].arg = k
                 /\ \A i \in 1..(j - 1) : used.args[i].arg # k
                 /\ cmd'.arg_map[k] = used.args[j].content]_vars

\* --proj a --use a on the file that holds bundle a (version:a, proj:c)
C4_Witness ==
    /\ pc = "assert"
    /\ get_arg(cmd, S_use).some
    /\ arg_cache # <<>>
    /\ LET used == UsedBundle(cmd, arg_cache) IN
       /\ \E j \in 1..Len(used.args) :
             /\ used.args[j].arg = S_proj
             /\ used.args[j].content = S_c
       /\ \E j \in 1..Len(used.args) :
             /\ used.args[j].arg = S_version
             /\ used.args[j].content = S_a
    /\ get_arg(cmd, S_proj) = [some |-> TRUE, val |-> S_a]
    /\ get_arg(cmd, S_version) = [some |-> TRUE, val |-> S_a]

CacheControlLine(ln) ==
    \/ starts_with(ln, S_save_as \o <<":">>)
    \/ starts_with(ln, S_use \o <<":">>)

\* C6: after a successful save the cache file holds no option line named
\* save-as or use.
C6_NoCacheControlPersisted ==
    (pc = "done" /\ cache_opens > 0 /\ res.ok) =>
        \A i \in 1..Len(Lines(cache_file.text)) :
            ~CacheControlLine(Lines(cache_file.text)[i])

\* C14: whenever main is about to render output, completeness validation has
\* succeeded: every required option of the active file type has a value.
C14_RenderAfterValidation ==
    (pc = "render" /\ has_output(output_mode)) =>
        \A i \in 1..Len(Chain) :
            Chain[i].definition.is_required
                => Chain[i].definition.name \in DOMAIN cmd.arg_map

\* C17: the cache file a successful save leaves behind is read without error
\* by the Cache Reader with the same valid names, and the bundles read hold
\* one with the saved cache name.
C17_SavedFileIsReadable ==
    (pc = "done" /\ cache_opens > 0 /\ res.ok) =>
        \E r \in {read_from_config(cache_file.text, ValidNames(cmd))} :
            /\ r.ok
            /\ \E i \in 1..Len(r.caches) :
                  r.caches[i].cache_name = get_arg(cmd, S_save_as).val


(***************************************************************************)
(* Several invocations of main, one after the other, on one cache file.    *)
(***************************************************************************)
MaxRuns == 3    \* invocations on one cache file in SpecRuns

RunTokens == {Opt(S_save_as), Opt(S_use), S_a, S_c}

InitRuns ==
    /\ cmd = define_args(CommandArg_new)
    /\ pc = "start"
    /\ args = <<>>
    /\ pos = 0
    /\ found_arg = FALSE
    /\ arg_ref = <<>>
    /\ res = Ok
    /\ output_mode = "NoOutput"
    /\ arg_cache = <<>>
    /\ result_str = NoResult
    /\ stdout = NoResult
    /\ out_file = NoResult
    /\ stderr = <<>>
    /\ le \in LineEndings
    /\ cache_file \in {NoFile, File(<<>>)}
    /\ cache_opens = 0
    /\ runs = 1
    /\ race = [procs |-> <<>>, last |-> 0]
    /\ ParseIdle /\ ReadIdle /\ RtIdle

\* one iteration of the loop of process_arg_impl, on the next token
RunsProcessArg ==
    /\ pc = "args"
    /\ pos < MaxMainArgs
    /\ \E tok \in RunTokens :
         \E st \in {ProcessOneArg(LoopState, tok)} :
             /\ cmd' = st.cmd
             /\ found_arg' = st.found_arg
             /\ arg_ref' = st.arg_ref
             /\ IF st.res.ok
                THEN pc' = "args" /\ UNCHANGED stderr
                ELSE pc' = "done" /\ Report(st.res)
    /\ pos' = pos + 1
    /\ UNCHANGED <<args, res, output_mode, arg_cache, result_str, stdout, out_file,
                   cache_file, cache_opens, le, parseVars, readVars, rtVars, multiVars>>

\* the process has ended; the next invocation starts on the file it left
RunsRestart ==
    /\ pc \in {"done", "panicked"}
    /\ runs < MaxRuns
    /\ runs' = runs + 1
    /\ cmd' = define_args(CommandArg_new)
    /\ pc' = "start"
    /\ pos' = 0
    /\ found_arg' = FALSE
    /\ arg_ref' = <<>>
    /\ res' = Ok
    /\ output_mode' = "NoOutput"
    /\ arg_cache' = <<>>
    /\ result_str' = NoResult
    /\ stdout' = NoResult
    /\ out_file' = NoResult
    /\ stderr' = <<>>
    /\ cache_opens' = 0
    /\ UNCHANGED <<args, cache_file, le, race, parseVars, readVars, rtVars>>

NextRuns ==
    \/ MainStart
    \/ RunsProcessArg
    \/ MainOutputMode
    \/ MainReadArgCache
    \/ MainAssertRequired
    \/ MainVerifyExisted
    \/ MainRender
    \/ MainShow
    \/ MainWriteFile
    \/ MainWriteArgCache
    \/ RunsRestart

SpecRuns == InitRuns /\ [][NextRuns]_vars

UniqueCacheNames(caches) ==
    \A i, j \in 1..Len(caches) :
        caches[i].cache_name = caches[j].cache_name => i = j

\* C23: the cache file holds at most one bundle per cache name, and a
\* successful save under a name the file already holds puts the new bundle
\* at the position of the old one, the file holding as many bundles as before.
C23_UniqueNameReplacedInPlace ==
    [][SavedSuccessfully =>
         LET old == BundlesOf(cache_file)
             new == BundlesOf(cache_file')
             cache_name == get_arg(cmd, S_save_as).val
         IN  /\ UniqueCacheNames(new)
             /\ Position(old, cache_name) # 0 =>
                   /\ Position(new, cache_name) = Position(old, cache_name)
                   /\ Len(new) = Len(old)]_vars


(***************************************************************************)
(* Two invocations of main running at the same time on one cache file.     *)
(* Each reads the file, opens it with truncate and writes its text; the    *)
(* three are separate calls into the file system and nothing orders the    *)
(* calls of one process against those of the other.                        *)
(***************************************************************************)
Procs == {1, 2}

\* the loop of process_arg_impl on a whole argument list
RECURSIVE process_arg_impl(_, _)
process_arg_impl(st, tokens) ==
    IF tokens = <<>> \/ ~st.res.ok THEN st
    ELSE Only({process_arg_impl(st1, Tail(tokens)) :
                 st1 \in {ProcessOneArg(st, Head(tokens))}})

\* command lines after `filetemp cmake`; none asks for output, so main goes
\* from read_arg_cache to write_arg_cache through verify_existed_args only
RaceArgLists ==
    { <<Opt(S_save_as), S_a>>,
      <<Opt(S_proj), S_c, Opt(S_save_as), S_a>>,
      <<Opt(S_use), S_a, Opt(S_save_as), S_c>>,
      <<Opt(S_use), S_a, Opt(S_proj), S_c, Opt(S_save_as), S_a>> }

InitRace ==
    /\ CmdIdle /\ ParseIdle /\ ReadIdle /\ RtIdle
    /\ output_mode = "NoOutput"
    /\ arg_cache = <<>>
    /\ result_str = NoResult
    /\ stdout = NoResult
    /\ out_file = NoResult
    /\ stderr = <<>>
    /\ cache_opens = 0
    /\ runs = 0
    /\ le \in LineEndings
    /\ cache_file \in {NoFile, File(write_to_config(<<Bundle_a>>, le))}
    /\ \E l1 \in RaceArgLists, l2 \in RaceArgLists :
          race = [procs |->
                    [p \in Procs |->
                       [pc |-> "read_cache",
                        cmd |-> process_arg_impl(
                                   [cmd |-> ProgramCmd, found_arg |-> FALSE,
                                    arg_ref |-> <<>>, res |-> Ok],
                                   IF p = 1 THEN l1 ELSE l2).cmd,
                        arg_cache |-> <<>>,
                        written |-> <<>>,
                        res |-> Ok]],
                  last |-> 0]

\* main.rs 82-99 of one process: read_arg_cache, then verify_existed_args
RaceRead ==
    \E p \in Procs, io \in IoOutcomes :
        /\ race.procs[p].pc = "read_cache"
        /\ \E r \in {read_arg_cache(race.procs[p].cmd, cache_file, io)} :
             \E v \in {IF r.res.ok THEN verify_existed_args(r.cmd) ELSE r.res} :
               race' = [race EXCEPT !.procs[p].cmd = r.cmd,
                                    !.procs[p].arg_cache = r.caches,
                                    !.procs[p].res = v,
                                    !.procs[p].pc = IF v.ok THEN "open" ELSE "done"]
        /\ UNCHANGED <<cmdVars, mainVars, parseVars, readVars, rtVars, runs>>

\* write_arg_cache up to the open: an existing file is cut to length 0
RaceOpen ==
    \E p \in Procs, io \in {"ok", "dir", "open"} :
        /\ race.procs[p].pc = "open"
        /\ IF io = "ok" /\ get_arg(race.procs[p].cmd, S_save_as).some
           THEN /\ cache_file' = File(<<>>)
                /\ race' = [race EXCEPT !.procs[p].pc = "write"]
           ELSE \E r \in {write_arg_cache(race.procs[p].cmd, race.procs[p].arg_cache,
                                          cache_file, le, <<>>, io)} :
                   /\ cache_file' = r.disk
                   /\ race' = [race EXCEPT !.procs[p].res = r.res,
                                           !.procs[p].pc = "done"]
        /\ UNCHANGED <<cmdVars, output_mode, arg_cache, result_str, stdout, out_file,
                       stderr, cache_opens, le, parseVars, readVars, rtVars, runs>>

\* File::write through a handle whose offset is 0: the bytes replace the
\* first Len(bytes) bytes of the file, what lies behind them stays
Overwrite(old, bytes) == bytes \o SubSeq(old, Len(bytes) + 1, Len(old))

\* the rest of write_arg_cache: the new bundle, replace or append, one write
RaceWrite ==
    \E p \in Procs, io \in {"ok", "rw"} :
        /\ race.procs[p].pc = "write"
        /\ \E order \in extract_args(race.procs[p].cmd) :
             \E r \in {write_arg_cache(race.procs[p].cmd, race.procs[p].arg_cache,
                                       cache_file, le, order, io)} :
               IF r.res.ok
               THEN /\ cache_file' = File(Overwrite(cache_file.text, r.disk.text))
                    /\ race' = [race EXCEPT !.procs[p].written = r.disk.text,
                                            !.procs[p].pc = "done",
                                            !.last = p]
               ELSE /\ race' = [race EXCEPT !.procs[p].res = r.res,
                                            !.procs[p].pc = "done"]
                    /\ UNCHANGED cache_file
        /\ UNCHANGED <<cmdVars, output_mode, arg_cache, result_str, stdout, out_file,
                       stderr, cache_opens, le, parseVars, readVars, rtVars, runs>>

NextRace ==
    \/ RaceRead
    \/ RaceOpen
    \/ RaceWrite

SpecRace == InitRace /\ [][NextRace]_vars

BothDone ==
    \A p \in DOMAIN race.procs : race.procs[p].pc = "done" /\ race.procs[p].res.ok

\* C24: when both invocations have ended without an error, the cache file is
\* exactly the text written by the invocation whose write came last.
C24_LastWriterWins ==
    (race.last # 0 /\ BothDone) =>
        cache_file = File(race.procs[race.last].written)

====
